---- MODULE Spec2Model ----
(***************************************************************************)
(* The benefit / marginal-rate / conservation calculator of the            *)
(* missouri-transitional-benefits app: computeBenefit, computeMtr and      *)
(* computeIntegral with the MtrComparison component that drives them from  *)
(* three sliders, computePvBenefits with the TwoPeriodModel component, and *)
(* the components that render the bundled data files: TheProblem,          *)
(* TheReform and CtResults.                                                *)
(*                                                                         *)
(* A finite JavaScript number is modelled as an exact rational <<n, d>> in *)
(* lowest terms with d > 0; NaN and the infinities have d = 0.  Every      *)
(* slider value, grid income and step of the program is a rational with a  *)
(* small denominator, so +, -, *, / and Math.max are modelled by what they *)
(* compute on the reals; IEEE rounding (of the order of 1e-12 here) is not *)
(* modelled.                                                               *)
(***************************************************************************)
EXTENDS Integers, Sequences, FiniteSets, TLC

VARIABLES
  benefitAmount,     \* MtrComparison: useState(5000)
  threshold,         \* MtrComparison: useState(30000)
  phaseOutRate,      \* MtrComparison: useState(0.5)
  incomes,           \* MtrComparison: useMemo(..., []), the income grid
  memoDeps,          \* dependency list the MTR memo was last computed for
  cliffMtr,          \* memoised series, in percent
  phaseOutMtr,
  universalMtr,
  cliffIntegral,     \* computed on every render
  phaseOutIntegral,
  universalIntegral,
  changes,           \* number of slider changes so far
  twoPeriodModel,    \* TwoPeriodModel: its two useState values and its memo
  snapResults,       \* import snapResults from "../data/snap_results.json"
  ctResults,         \* import ctResults from "../data/ct_results.json"
  theProblem,        \* what TheProblem rendered
  theReform,         \* TheReform: its useState value, memo and rendered traces
  ctResultsView,     \* what CtResults rendered
  call,              \* the pure function under evaluation and its arguments
  ret                \* what it returned

mtrVars == <<benefitAmount, threshold, phaseOutRate, incomes, memoDeps,
             cliffMtr, phaseOutMtr, universalMtr,
             cliffIntegral, phaseOutIntegral, universalIntegral>>

dataVars == <<snapResults, ctResults, theProblem, theReform, ctResultsView>>

compVars == <<mtrVars, changes, twoPeriodModel, dataVars>>

vars == <<compVars, call, ret>>

-----------------------------------------------------------------------------
(* Bounds of the exploration.                                              *)

\* slider changes followed from the initial render
MaxChanges == 1
\* computeBenefit arguments: income = 5000 * i, i in 0..MaxIncomeIdx
MaxIncomeIdx == 8
\* benefitAmount = 2500 * i, i in 0..MaxBenefitIdx
MaxBenefitIdx == 2
\* threshold = 10000 * i, i in 0..MaxThresholdIdx
MaxThresholdIdx == 3
\* computeIntegral / computeMtr arguments: grids of 0..MaxGridLen points
MaxGridLen == 3
\* computePvBenefits arguments: extensionPeriods in 0..MaxPeriodsArg
MaxPeriodsArg == 2
\* discountRate = 0.05 * i, i in 0..MaxDiscountIdx
MaxDiscountIdx == 3
\* TwoPeriodModel slider: extension periods 1..MaxPeriodStop are followed
MaxPeriodStop == 3
\* TwoPeriodModel slider: discount rates 0.025 * i, i in 0..MaxDiscountStop
MaxDiscountStop == 6
\* bundled data: every series has DataLen points
DataLen == 4
\* TheReform slider: extension periods 1..MaxReformPeriods are followed, and
\* future_snap holds any of the years metadata.year + 1..MaxReformPeriods
MaxReformPeriods == 3
\* memo of TwoPeriodModel applied by itself: extension periods
\* 1..MaxMemoPeriods at discount rate 0, and extension periods
\* 1..MaxMemoDiscounted at every followed discount rate
MaxMemoPeriods == 10
MaxMemoDiscounted == 2

-----------------------------------------------------------------------------
(* Numbers.                                                                *)

RECURSIVE GCD(_, _)
GCD(a, c) == IF c = 0 THEN a ELSE GCD(c, a % c)

Abs(x) == IF x < 0 THEN -x ELSE x

Sgn(n) == IF n > 0 THEN 1 ELSE IF n < 0 THEN -1 ELSE 0

\* what JavaScript yields instead of a finite number: 0/0, x/0 and -x/0
NaN == <<0, 0>>
PosInf == <<1, 0>>
NegInf == <<-1, 0>>

\* Number.isFinite
Finite(x) == x[2] > 0

\* n / d in lowest terms with a positive denominator; d = 0 is not finite
Rat(n, d) ==
  IF d = 1 THEN <<n, 1>>
  ELSE IF d = 0 THEN <<Sgn(n), 0>>
  ELSE LET g == GCD(Abs(n), Abs(d))
           sg == IF d < 0 THEN -1 ELSE 1
       IN <<sg * (n \div g), sg * (d \div g)>>

I(n) == <<n, 1>>

RAdd(x, y) ==
  IF x[2] = 0 \/ y[2] = 0
  THEN IF y[2] # 0 THEN x
       ELSE IF x[2] # 0 THEN y
       ELSE IF x[1] = y[1] THEN x ELSE NaN
  ELSE IF x[2] = y[2] THEN Rat(x[1] + y[1], x[2])
  ELSE LET g == GCD(x[2], y[2])
       IN Rat(x[1] * (y[2] \div g) + y[1] * (x[2] \div g), (x[2] \div g) * y[2])

RNeg(x) == <<-x[1], x[2]>>

RSub(x, y) == RAdd(x, RNeg(y))

RMul(x, y) ==
  IF x[2] = 1 /\ y[2] = 1 THEN <<x[1] * y[1], 1>>
  ELSE IF x[2] = 0 \/ y[2] = 0 THEN <<Sgn(x[1]) * Sgn(y[1]), 0>>
  ELSE LET g1 == GCD(Abs(x[1]), y[2])
           g2 == GCD(Abs(y[1]), x[2])
       IN <<(x[1] \div g1) * (y[1] \div g2), (x[2] \div g2) * (y[2] \div g1)>>

\* x / y; a division by zero yields an infinity or NaN as in JavaScript
RDiv(x, y) ==
  IF y[1] > 0 THEN RMul(x, <<y[2], y[1]>>)
  ELSE IF y[1] < 0 THEN RMul(x, <<-y[2], -y[1]>>)
  ELSE RMul(x, IF y[2] = 0 THEN NaN ELSE PosInf)

\* x <= y and x < y; a comparison with NaN is false
RLe(x, y) ==
  IF x[2] = y[2] THEN (x[2] # 0 \/ (x[1] # 0 /\ y[1] # 0)) /\ x[1] <= y[1]
  ELSE /\ x # NaN
       /\ y # NaN
       /\ LET g == GCD(x[2], y[2])
          IN x[1] * (y[2] \div g) <= y[1] * (x[2] \div g)

RLt(x, y) ==
  IF x[2] = y[2] THEN (x[2] # 0 \/ (x[1] # 0 /\ y[1] # 0)) /\ x[1] < y[1]
  ELSE /\ x # NaN
       /\ y # NaN
       /\ LET g == GCD(x[2], y[2])
          IN x[1] * (y[2] \div g) < y[1] * (x[2] \div g)

RMax(x, y) == IF RLt(x, y) THEN y ELSE x

RAbs(x) == <<Abs(x[1]), x[2]>>

-----------------------------------------------------------------------------
(* CtResults.tsx: the calculator.                                          *)

Designs == {"cliff", "phase_out", "universal"}

\* computeBenefit with the threshold itself excluded (< for <=) in the cliff design
computeBenefitStrict(income, benefit, thresh, rate, design) ==
  CASE design = "cliff" ->
         IF RLt(income, thresh) THEN benefit ELSE I(0)
    [] design = "phase_out" ->
         IF RLe(income, thresh) THEN benefit
         ELSE RMax(RSub(benefit, RMul(rate, RSub(income, thresh))), I(0))
    [] design = "universal" -> benefit

\* computeBenefit without the floor at zero in the phase_out design
computeBenefitNoFloor(income, benefit, thresh, rate, design) ==
  CASE design = "cliff" ->
         IF RLe(income, thresh) THEN benefit ELSE I(0)
    [] design = "phase_out" ->
         IF RLe(income, thresh) THEN benefit
         ELSE RSub(benefit, RMul(rate, RSub(income, thresh)))
    [] design = "universal" -> benefit

\* computeBenefit with the universal design means-tested like the cliff design
computeBenefitUniversalTested(income, benefit, thresh, rate, design) ==
  CASE design = "phase_out" ->
         IF RLe(income, thresh) THEN benefit
         ELSE RMax(RSub(benefit, RMul(rate, RSub(income, thresh))), I(0))
    [] OTHER -> IF RLe(income, thresh) THEN benefit ELSE I(0)

computeBenefit(income, benefit, thresh, rate, design) ==
  CASE design = "cliff" ->
         IF RLe(income, thresh) THEN benefit ELSE I(0)
    [] design = "phase_out" ->
         IF RLe(income, thresh) THEN benefit
         ELSE LET reduced == RSub(benefit, RMul(rate, RSub(income, thresh)))
              IN RMax(reduced, I(0))
    [] design = "universal" -> benefit

dy == I(100)

\* computeMtr returning the estimate itself, not times 100
computeMtrFraction(grid, benefit, thresh, rate, design) ==
  [i \in 1..Len(grid) |->
     LET y == grid[i]
         b1 == computeBenefit(y, benefit, thresh, rate, design)
         b2 == computeBenefit(RAdd(y, dy), benefit, thresh, rate, design)
     IN RDiv(RNeg(RSub(b2, b1)), dy)]

\* computeMtr differencing over the grid spacing, 200, instead of dy
computeMtrGridStep(grid, benefit, thresh, rate, design) ==
  [i \in 1..Len(grid) |->
     LET y == grid[i]
         b1 == computeBenefit(y, benefit, thresh, rate, design)
         b2 == computeBenefit(RAdd(y, I(200)), benefit, thresh, rate, design)
         mtr == RDiv(RNeg(RSub(b2, b1)), I(200))
     IN RMul(mtr, I(100))]

\* computeMtr with the sign of the difference lost: (b2 - b1) / dy
computeMtrSlope(grid, benefit, thresh, rate, design) ==
  [i \in 1..Len(grid) |->
     LET y == grid[i]
         b1 == computeBenefit(y, benefit, thresh, rate, design)
         b2 == computeBenefit(RAdd(y, dy), benefit, thresh, rate, design)
         mtr == RDiv(RSub(b2, b1), dy)
     IN RMul(mtr, I(100))]

\* the series is in percent: the estimate times 100
computeMtr(grid, benefit, thresh, rate, design) ==
  [i \in 1..Len(grid) |->
     LET y == grid[i]
         b1 == computeBenefit(y, benefit, thresh, rate, design)
         b2 == computeBenefit(RAdd(y, dy), benefit, thresh, rate, design)
         mtr == RDiv(RNeg(RSub(b2, b1)), dy)
     IN RMul(mtr, I(100))]

\* IntegralStep by the trapezoid rule
IntegralStepTrapezoid(grid, mtrPcts, i, sum) ==
  LET x0 == grid[i + 1]
      x1 == grid[i + 2]
      m == RDiv(RAdd(mtrPcts[i + 1], mtrPcts[i + 2]), I(2))
  IN RAdd(sum, RMul(RDiv(m, I(100)), RSub(x1, x0)))

\* IntegralStep taking the percentage for the rate
IntegralStepPercent(grid, mtrPcts, i, sum) ==
  LET x0 == grid[i + 1]
      x1 == grid[i + 2]
      m == mtrPcts[i + 1]
  IN RAdd(sum, RMul(m, RSub(x1, x0)))

\* one iteration of the loop of computeIntegral, i counted from 0
IntegralStep(grid, mtrPcts, i, sum) ==
  LET x0 == grid[i + 1]
      x1 == grid[i + 2]
      m == mtrPcts[i + 1]
  IN RAdd(sum, RMul(RDiv(m, I(100)), RSub(x1, x0)))

\* the iterations lo..hi of the loop, in order, starting from sum; the range
\* is split in halves only to keep the evaluation shallow
RECURSIVE IntegralLoop(_, _, _, _, _)
IntegralLoop(grid, mtrPcts, lo, hi, sum) ==
  IF lo > hi THEN sum
  ELSE IF lo = hi THEN IntegralStep(grid, mtrPcts, lo, sum)
  ELSE LET mid == (lo + hi) \div 2
           left == IntegralLoop(grid, mtrPcts, lo, mid, sum)
       IN IF left[2] > 0 THEN IntegralLoop(grid, mtrPcts, mid + 1, hi, left)
          ELSE left

computeIntegral(grid, mtrPcts) ==
  LET n == Len(grid)
  IN IntegralLoop(grid, mtrPcts, 0, n - 2, I(0))

-----------------------------------------------------------------------------
(* TwoPeriodModel.tsx: present value of the benefits.                      *)

\* Math.pow(x, t) for an integer t >= 0
RECURSIVE RPow(_, _)
RPow(x, t) == IF t = 0 THEN I(1) ELSE RMul(x, RPow(x, t - 1))

\* PvLoop with the last period left out (t < extensionPeriods)
RECURSIVE PvLoopShort(_, _, _, _, _)
PvLoopShort(benefit, extensionPeriods, discountRate, t, pv) ==
  IF t < extensionPeriods
  THEN PvLoopShort(benefit, extensionPeriods, discountRate, t + 1,
                   RAdd(pv, RDiv(benefit, RPow(RAdd(I(1), discountRate), t))))
  ELSE pv

\* PvLoop keeping only the last term (pv = ... for pv += ...)
RECURSIVE PvLoopLastTerm(_, _, _, _, _)
PvLoopLastTerm(benefit, extensionPeriods, discountRate, t, pv) ==
  IF t < 1 + extensionPeriods
  THEN PvLoopLastTerm(benefit, extensionPeriods, discountRate, t + 1,
                      RDiv(benefit, RPow(RAdd(I(1), discountRate), t)))
  ELSE pv

\* for (let t = 0; t < 1 + extensionPeriods; t++) pv += ...
RECURSIVE PvLoop(_, _, _, _, _)
PvLoop(benefit, extensionPeriods, discountRate, t, pv) ==
  IF t < 1 + extensionPeriods
  THEN PvLoop(benefit, extensionPeriods, discountRate, t + 1,
              RAdd(pv, RDiv(benefit, RPow(RAdd(I(1), discountRate), t))))
  ELSE pv

\* computePvBenefits with the threshold itself excluded (< for <=)
computePvBenefitsStrict(income, benefit, thresh, extensionPeriods, discountRate, extended) ==
  IF ~extended
  THEN IF RLt(income, thresh) THEN benefit ELSE I(0)
  ELSE IF RLt(income, thresh)
       THEN PvLoop(benefit, extensionPeriods, discountRate, 0, I(0))
       ELSE I(0)

computePvBenefits(income, benefit, thresh, extensionPeriods, discountRate, extended) ==
  IF ~extended
  THEN IF RLe(income, thresh) THEN benefit ELSE I(0)
  ELSE IF RLe(income, thresh)
       THEN PvLoop(benefit, extensionPeriods, discountRate, 0, I(0))
       ELSE I(0)

-----------------------------------------------------------------------------
(* CtResults.tsx: the MtrComparison component.                             *)

\* for (let y = 0; y <= 80000; y += 200) arr.push(y)
IncomeGrid == [i \in 1..401 |-> I((i - 1) * 200)]

\* the sliders: {min, max, step}
BenefitStops == {I(500 * i) : i \in 0..40}
ThresholdStops == {I(1000 * i) : i \in 0..80}
RateStops == {Rat(i, 20) : i \in 0..20}

\* useMemo(() => ({cliffMtr, phaseOutMtr, universalMtr}), [incomes,
\* benefitAmount, threshold, phaseOutRate]) followed by the three integrals,
\* for the slider values of the next state
Render ==
  /\ incomes' = incomes
  /\ LET deps == <<incomes', benefitAmount', threshold', phaseOutRate'>>
     IN IF deps = memoDeps
        THEN UNCHANGED <<memoDeps, cliffMtr, phaseOutMtr, universalMtr>>
        ELSE /\ memoDeps' = deps
             /\ cliffMtr' = computeMtr(incomes', benefitAmount', threshold',
                                       phaseOutRate', "cliff")
             /\ phaseOutMtr' = computeMtr(incomes', benefitAmount', threshold',
                                          phaseOutRate', "phase_out")
             /\ universalMtr' = computeMtr(incomes', benefitAmount', threshold',
                                           phaseOutRate', "universal")
  /\ cliffIntegral' = computeIntegral(incomes', cliffMtr')
  /\ phaseOutIntegral' = computeIntegral(incomes', phaseOutMtr')
  /\ universalIntegral' = computeIntegral(incomes', universalMtr')

setBenefitAmount ==
  /\ changes < MaxChanges
  /\ \E v \in BenefitStops \ {benefitAmount} :
       /\ benefitAmount' = v
       /\ UNCHANGED <<threshold, phaseOutRate>>
       /\ Render
  /\ changes' = changes + 1
  /\ UNCHANGED <<twoPeriodModel, dataVars, call, ret>>

setThreshold ==
  /\ changes < MaxChanges
  /\ \E v \in ThresholdStops \ {threshold} :
       /\ threshold' = v
       /\ UNCHANGED <<benefitAmount, phaseOutRate>>
       /\ Render
  /\ changes' = changes + 1
  /\ UNCHANGED <<twoPeriodModel, dataVars, call, ret>>

setPhaseOutRate ==
  /\ changes < MaxChanges
  /\ \E v \in RateStops \ {phaseOutRate} :
       /\ phaseOutRate' = v
       /\ UNCHANGED <<benefitAmount, threshold>>
       /\ Render
  /\ changes' = changes + 1
  /\ UNCHANGED <<twoPeriodModel, dataVars, call, ret>>

\* the first render of MtrComparison
Mount ==
  /\ benefitAmount = I(5000)
  /\ threshold = I(30000)
  /\ phaseOutRate = Rat(1, 2)
  /\ incomes = IncomeGrid
  /\ memoDeps = <<incomes, benefitAmount, threshold, phaseOutRate>>
  /\ cliffMtr = computeMtr(incomes, benefitAmount, threshold, phaseOutRate, "cliff")
  /\ phaseOutMtr = computeMtr(incomes, benefitAmount, threshold, phaseOutRate, "phase_out")
  /\ universalMtr = computeMtr(incomes, benefitAmount, threshold, phaseOutRate, "universal")
  /\ cliffIntegral = computeIntegral(incomes, cliffMtr)
  /\ phaseOutIntegral = computeIntegral(incomes, phaseOutMtr)
  /\ universalIntegral = computeIntegral(incomes, universalMtr)
  /\ changes = 0

-----------------------------------------------------------------------------
(* TwoPeriodModel.tsx: the TwoPeriodModel component.                       *)

\* const benefitAmount = 5000; const threshold = 30000;
TpBenefitAmount == I(5000)
TpThreshold == I(30000)

\* for (let y = 0; y <= 60000; y += 500) arr.push(y)
TpIncomeGrid == [i \in 1..121 |-> I((i - 1) * 500)]

\* the sliders {min 1, max 10, step 1} and {min 0, max 0.15, step 0.005};
\* of the discount slider every fifth stop is followed
PeriodStops == (1..MaxPeriodStop) \cap (1..10)
DiscountStops == {Rat(j, 200) : j \in {5 * i : i \in 0..MaxDiscountStop} \cap (0..30)}

\* ExtCliffLoop with the last period left out (t < extensionPeriods)
RECURSIVE ExtCliffLoopShort(_, _, _, _)
ExtCliffLoopShort(extensionPeriods, discountRate, t, extCliffVal) ==
  IF t < extensionPeriods
  THEN ExtCliffLoopShort(extensionPeriods, discountRate, t + 1,
         RAdd(extCliffVal,
              RDiv(TpBenefitAmount, RPow(RAdd(I(1), discountRate), t))))
  ELSE extCliffVal

\* ExtCliffLoop discounting by Math.pow(discountRate, t), without the 1 +
RECURSIVE ExtCliffLoopNoOne(_, _, _, _)
ExtCliffLoopNoOne(extensionPeriods, discountRate, t, extCliffVal) ==
  IF t < 1 + extensionPeriods
  THEN ExtCliffLoopNoOne(extensionPeriods, discountRate, t + 1,
         RAdd(extCliffVal, RDiv(TpBenefitAmount, RPow(discountRate, t))))
  ELSE extCliffVal

\* for (let t = 0; t < 1 + extensionPeriods; t++)
\*   extCliffVal += benefitAmount / Math.pow(1 + discountRate, t)
RECURSIVE ExtCliffLoop(_, _, _, _)
ExtCliffLoop(extensionPeriods, discountRate, t, extCliffVal) ==
  IF t < 1 + extensionPeriods
  THEN ExtCliffLoop(extensionPeriods, discountRate, t + 1,
         RAdd(extCliffVal,
              RDiv(TpBenefitAmount, RPow(RAdd(I(1), discountRate), t))))
  ELSE extCliffVal

\* the memo mapping the extended series over the grid without its last point
TpComputeShortSeries(grid, extensionPeriods, discountRate) ==
  [standardPv |->
     [i \in 1..Len(grid) |->
        computePvBenefits(grid[i], TpBenefitAmount, TpThreshold, 0,
                          discountRate, FALSE)],
   extendedPv |->
     [i \in 1..(Len(grid) - 1) |->
        computePvBenefits(grid[i], TpBenefitAmount, TpThreshold,
                          extensionPeriods, discountRate, TRUE)],
   standardCliff |-> TpBenefitAmount,
   extendedCliff |-> ExtCliffLoop(extensionPeriods, discountRate, 0, I(0))]

\* the body of the memo
TpCompute(grid, extensionPeriods, discountRate) ==
  [standardPv |->
     [i \in 1..Len(grid) |->
        computePvBenefits(grid[i], TpBenefitAmount, TpThreshold, 0,
                          discountRate, FALSE)],
   extendedPv |->
     [i \in 1..Len(grid) |->
        computePvBenefits(grid[i], TpBenefitAmount, TpThreshold,
                          extensionPeriods, discountRate, TRUE)],
   standardCliff |-> TpBenefitAmount,
   extendedCliff |-> ExtCliffLoop(extensionPeriods, discountRate, 0, I(0))]

\* TpRender with the discount rate missing from the dependency list
TpRenderStale(prev, extensionPeriods, discountRate) ==
  LET deps == <<prev.incomes, extensionPeriods>>
      memo == IF prev.memoDeps # <<>> /\ deps = SubSeq(prev.memoDeps, 1, 2)
              THEN [standardPv |-> prev.standardPv,
                    extendedPv |-> prev.extendedPv,
                    standardCliff |-> prev.standardCliff,
                    extendedCliff |-> prev.extendedCliff]
              ELSE TpCompute(prev.incomes, extensionPeriods, discountRate)
  IN [extensionPeriods |-> extensionPeriods,
      discountRate |-> discountRate,
      incomes |-> prev.incomes,
      memoDeps |-> <<prev.incomes, extensionPeriods, discountRate>>,
      standardPv |-> memo.standardPv,
      extendedPv |-> memo.extendedPv,
      standardCliff |-> memo.standardCliff,
      extendedCliff |-> memo.extendedCliff]

\* a render of TwoPeriodModel after the render prev, with the slider values
\* given: useMemo(..., [incomes, extensionPeriods, discountRate])
TpRender(prev, extensionPeriods, discountRate) ==
  LET deps == <<prev.incomes, extensionPeriods, discountRate>>
      memo == IF deps = prev.memoDeps
              THEN [standardPv |-> prev.standardPv,
                    extendedPv |-> prev.extendedPv,
                    standardCliff |-> prev.standardCliff,
                    extendedCliff |-> prev.extendedCliff]
              ELSE TpCompute(prev.incomes, extensionPeriods, discountRate)
  IN [extensionPeriods |-> extensionPeriods,
      discountRate |-> discountRate,
      incomes |-> prev.incomes,
      memoDeps |-> deps,
      standardPv |-> memo.standardPv,
      extendedPv |-> memo.extendedPv,
      standardCliff |-> memo.standardCliff,
      extendedCliff |-> memo.extendedCliff]

\* the first render: useState(3), useState(0.05), nothing memoised yet
TpMount ==
  TpRender([incomes |-> TpIncomeGrid, memoDeps |-> <<>>], 3, Rat(5, 100))

\* the multiplier of the caption, before toFixed(2)
TpMultiplier == RDiv(twoPeriodModel.extendedCliff, twoPeriodModel.standardCliff)

setExtensionPeriods ==
  /\ changes < MaxChanges
  /\ \E v \in PeriodStops \ {twoPeriodModel.extensionPeriods} :
       twoPeriodModel' = TpRender(twoPeriodModel, v, twoPeriodModel.discountRate)
  /\ changes' = changes + 1
  /\ UNCHANGED <<mtrVars, dataVars, call, ret>>

setDiscountRate ==
  /\ changes < MaxChanges
  /\ \E v \in DiscountStops \ {twoPeriodModel.discountRate} :
       twoPeriodModel' = TpRender(twoPeriodModel, twoPeriodModel.extensionPeriods, v)
  /\ changes' = changes + 1
  /\ UNCHANGED <<mtrVars, dataVars, call, ret>>

-----------------------------------------------------------------------------
(* The bundled data, ../data/snap_results.json and ../data/ct_results.json. *)
(* The files are inputs: they are drawn from bounded sets of well-shaped    *)
(* records, every series DataLen long.                                      *)

RMin(x, y) == IF RLt(y, x) THEN y ELSE x

\* Math.round: the nearest integer, halves upwards
RRound(x) == IF x[2] = 0 THEN x ELSE I((2 * x[1] + x[2]) \div (2 * x[2]))

DataIdx == 1..DataLen

\* rates on both sides of the cliff test, and 1.0 itself
MtrVals == {Rat(1, 10), I(1), Rat(3, 2), Rat(-3, 2)}
MtrSeries == [DataIdx -> MtrVals]
\* the series with at most one rate that is not 0.1
SpikeSeries ==
  {[i \in DataIdx |-> IF i = k THEN v ELSE Rat(1, 10)] : k \in DataIdx, v \in MtrVals}

\* yearly SNAP amounts by earnings: lost at a cliff after k points (amounts
\* that round up and down to the cent), or phased out
SnapProfiles ==
  {[i \in DataIdx |-> IF i <= k THEN Rat(291556, 1000) ELSE I(0)] : k \in 0..2}
    \cup {[i \in DataIdx |-> IF i <= 3 THEN Rat(291554, 1000) ELSE I(0)]}
    \cup {[i \in DataIdx |-> RMul(Rat(2505, 10), I(DataLen - i))]}
\* SNAP partly lost after the first point and fully lost at the last
PartialSnap ==
  [i \in DataIdx |-> IF i = 1 THEN Rat(291556, 1000)
                     ELSE IF i < DataLen THEN I(150) ELSE I(0)]
\* benefits other than SNAP: flat, or lost after two points
OtherProfiles ==
  {[i \in DataIdx |-> I(100)],
   [i \in DataIdx |-> IF i <= 2 THEN I(100) ELSE I(0)]}
FutureProfiles ==
  {[i \in DataIdx |-> IF i <= 2 THEN Rat(300125, 1000) ELSE I(0)],
   [i \in DataIdx |-> RMul(Rat(2605, 10), I(DataLen - i))]}

\* metadata.year
DataYear == 2025
FutureYears == {DataYear + t : t \in 1..MaxReformPeriods}

\* String(n) of an integer n
String(n) == ToString(n)

SampleSnap ==
  [earnings |-> [i \in DataIdx |-> I(1000 * (i - 1))],
   baseline |->
     [snap |-> [i \in DataIdx |-> IF i <= 2 THEN Rat(291556, 1000) ELSE I(0)],
      benefits |-> [i \in DataIdx |->
                      IF i <= 2 THEN Rat(391556, 1000)
                      ELSE IF i = 3 THEN I(100) ELSE I(0)],
      mtr |-> [i \in DataIdx |-> IF i = 3 THEN Rat(3, 2) ELSE Rat(1, 10)],
      snap_mtr |-> [i \in DataIdx |-> IF i = 3 THEN Rat(3, 2) ELSE Rat(1, 10)]],
   reform |->
     [snap_mtr |-> [i \in DataIdx |-> IF i = DataLen THEN Rat(3, 2) ELSE Rat(1, 10)]],
   future_snap |->
     [k \in {String(y) : y \in FutureYears} |->
        [i \in DataIdx |-> IF i <= 2 THEN Rat(300125, 1000) ELSE I(0)]],
   metadata |-> [year |-> DataYear]]

SampleCt ==
  [mtr_distribution |-> [bins |-> <<-50, 0, 50, 100, 150>>,
                         counts |-> <<I(5), I(40), I(45), I(10)>>]]

\* the files the components may be bundled with: the sample with one part
\* of it replaced
SnapSets ==
  {[SampleSnap EXCEPT !.baseline.mtr = m] : m \in MtrSeries}
    \cup {[SampleSnap EXCEPT !.baseline.snap_mtr = m] : m \in SpikeSeries}
    \cup {[SampleSnap EXCEPT !.reform.snap_mtr = m] : m \in SpikeSeries}
    \cup UNION {{[SampleSnap EXCEPT !.baseline.snap = s, !.future_snap = f] :
                   s \in SnapProfiles,
                   f \in [{String(y) : y \in Y} -> FutureProfiles]} :
                Y \in SUBSET FutureYears}
    \cup {[SampleSnap EXCEPT
             !.baseline.mtr = [i \in DataIdx |-> Rat(3, 2)],
             !.baseline.snap = s,
             !.baseline.benefits = [i \in DataIdx |-> RAdd(s[i], o[i])]] :
           s \in SnapProfiles \cup {PartialSnap}, o \in OtherProfiles}

CtSets ==
  {[SampleCt EXCEPT !.mtr_distribution.bins = b] :
     b \in {<<>>, <<0>>, <<0, 100>>, <<-50, 0, 50, 100, 150>>}}

DataSets ==
  {<<d, SampleCt>> : d \in SnapSets} \cup {<<SampleSnap, c>> : c \in CtSets}

-----------------------------------------------------------------------------
(* TwoPeriodModel.tsx: the TheProblem component.                           *)

\* IsCliff on the magnitude of the rate
IsCliffAbs(m) == RLt(I(1), RAbs(m))

\* IsCliff with the threshold itself included
IsCliffOrEqual(m) == RLe(I(1), m)

\* (m) => m > 1.0
IsCliff(m) == RLt(I(1), m)

\* the indices i of the series with IsCliff(mtr[i]), in order
CliffIdx(mtr) ==
  SelectSeq([i \in 1..Len(mtr) |-> i], LAMBDA i : IsCliff(mtr[i]))

\* baseline.mtr.filter((m) => m > 1.0).length
CliffCount(mtr) == Len(SelectSeq(mtr, IsCliff))

\* earnings.filter((_, i) => mtr[i] > 1.0)
MarkerX(earnings, mtr) ==
  LET idx == CliffIdx(mtr) IN [k \in 1..Len(idx) |-> earnings[idx[k]]]

\* earnings.filter((_, i) => mtr[i] > 1.0).map(() => 100)
MarkerY(earnings, mtr) ==
  LET xs == MarkerX(earnings, mtr) IN [k \in 1..Len(xs) |-> I(100)]

\* ClampedTrace without the clamp: the rate in percent
ClampedTraceUnclamped(mtr) ==
  [i \in 1..Len(mtr) |-> RMul(mtr[i], I(100))]

\* mtr.map((m) => Math.max(-1, Math.min(1, m)) * 100)
ClampedTrace(mtr) ==
  [i \in 1..Len(mtr) |-> RMul(RMax(I(-1), RMin(I(1), mtr[i])), I(100))]

\* Math.max(...arr)
RECURSIVE MaxOf(_, _)
MaxOf(arr, n) == IF n = 0 THEN NegInf ELSE RMax(MaxOf(arr, n - 1), arr[n])

\* CliffLabel without the test for a cliff of benefits other than SNAP
CliffLabelNoSchoolMeals(baseline, i) ==
  LET snapBefore == baseline.snap[i - 1]
      snapAfter == baseline.snap[i]
      snapDrop == RSub(snapBefore, snapAfter)
  IN IF RLt(I(0), snapAfter) /\ RLt(I(0), snapDrop) THEN "SNAP (130% FPL)"
     ELSE IF RLt(I(0), snapBefore) /\ snapAfter = I(0) THEN "SNAP + school meals"
     ELSE "Benefits cliff"

\* the label of the cliff at position i of the series (i - 1 in the code)
CliffLabel(baseline, i) ==
  LET snapBefore == baseline.snap[i - 1]
      snapAfter == baseline.snap[i]
      snapDrop == RSub(snapBefore, snapAfter)
      totalDrop == RSub(baseline.benefits[i - 1], baseline.benefits[i])
  IN IF RLt(I(0), snapAfter) /\ RLt(I(0), snapDrop) THEN "SNAP (130% FPL)"
     ELSE IF RLt(I(0), snapBefore) /\ snapAfter = I(0) THEN "SNAP + school meals"
     ELSE IF snapDrop = I(0) /\ RLt(I(0), totalDrop) THEN "School meals"
     ELSE "Benefits cliff"

\* for (let i = 1; i < earnings.length; i++) if (baseline.mtr[i] > 1.0) ...
CliffLabels(earnings, baseline) ==
  LET idx == SelectSeq([i \in 1..Len(earnings) |-> i],
                       LAMBDA i : i >= 2 /\ IsCliff(baseline.mtr[i]))
  IN [k \in 1..Len(idx) |->
        [x |-> earnings[idx[k]], label |-> CliffLabel(baseline, idx[k])]]

NotRendered == [rendered |-> FALSE]

\* what one render of TheProblem computes from the data
TheProblemView(data) ==
  [rendered |-> TRUE,
   cliffCount |-> CliffCount(data.baseline.mtr),
   maxSnap |-> MaxOf(data.baseline.snap, Len(data.baseline.snap)),
   cliffLabels |-> CliffLabels(data.earnings, data.baseline),
   mtrTrace |-> ClampedTrace(data.baseline.mtr),
   markerX |-> MarkerX(data.earnings, data.baseline.mtr),
   markerY |-> MarkerY(data.earnings, data.baseline.mtr)]

RenderTheProblem ==
  /\ ~theProblem.rendered
  /\ theProblem' = TheProblemView(snapResults)
  /\ UNCHANGED <<mtrVars, changes, twoPeriodModel, snapResults, ctResults,
                 theReform, ctResultsView, call, ret>>

-----------------------------------------------------------------------------
(* TheReform.                                                              *)

\* ExtTotalLoop stopping one year short: t < extensionPeriods
RECURSIVE ExtTotalLoopShort(_, _, _, _, _)
ExtTotalLoopShort(data, extensionPeriods, idx, t, total) ==
  IF t < extensionPeriods
  THEN LET yearKey == String(data.metadata.year + t)
       IN IF yearKey \in DOMAIN data.future_snap
          THEN ExtTotalLoopShort(data, extensionPeriods, idx, t + 1,
                                 RAdd(total, data.future_snap[yearKey][idx]))
          ELSE ExtTotalLoopShort(data, extensionPeriods, idx, t + 1, total)
  ELSE total

\* for (let t = 1; t <= extensionPeriods; t++) {
\*   const yearSnap = future_snap[String(metadata.year + t)];
\*   if (yearSnap) total += yearSnap[idx];
\* }
RECURSIVE ExtTotalLoop(_, _, _, _, _)
ExtTotalLoop(data, extensionPeriods, idx, t, total) ==
  IF t <= extensionPeriods
  THEN LET yearKey == String(data.metadata.year + t)
       IN IF yearKey \in DOMAIN data.future_snap
          THEN ExtTotalLoop(data, extensionPeriods, idx, t + 1,
                            RAdd(total, data.future_snap[yearKey][idx]))
          ELSE ExtTotalLoop(data, extensionPeriods, idx, t + 1, total)
  ELSE total

\* Math.round(total * 100) / 100
RoundCents(total) == RDiv(RRound(RMul(total, I(100))), I(100))

\* the largest drop between neighbours of the series, 0 when there is none
RECURSIVE MaxDrop(_, _)
MaxDrop(total, n) ==
  IF n <= 1 THEN I(0)
  ELSE LET before == MaxDrop(total, n - 1)
           drop == RSub(total[n - 1], total[n])
       IN IF RLt(before, drop) THEN drop ELSE before

\* the body of the memo
ReformCompute(data, extensionPeriods) ==
  LET stdTotal == [i \in 1..Len(data.baseline.snap) |-> data.baseline.snap[i]]
      extTotal == [i \in 1..Len(data.baseline.snap) |->
                     RoundCents(ExtTotalLoop(data, extensionPeriods, i, 1,
                                             data.baseline.snap[i]))]
  IN [standardTotal |-> stdTotal,
      extendedTotal |-> extTotal,
      maxStdCliff |-> RRound(MaxDrop(stdTotal, Len(stdTotal))),
      maxExtCliff |-> RRound(MaxDrop(extTotal, Len(stdTotal)))]

\* ReformMultiplier dividing whatever maxStdCliff is
ReformMultiplierUnguarded(maxStdCliff, maxExtCliff) ==
  [shown |-> TRUE,
   value |-> RDiv(RRound(RMul(RDiv(maxExtCliff, maxStdCliff), I(10))), I(10))]

\* maxStdCliff > 0 ? (maxExtCliff / maxStdCliff).toFixed(1) : a dash
ReformMultiplier(maxStdCliff, maxExtCliff) ==
  IF RLt(I(0), maxStdCliff)
  THEN [shown |-> TRUE,
        value |-> RDiv(RRound(RMul(RDiv(maxExtCliff, maxStdCliff), I(10))), I(10))]
  ELSE [shown |-> FALSE]

\* a render of TheReform after the render prev with the slider value given:
\* useMemo(..., [baseline.snap, future_snap, metadata.year, extensionPeriods])
ReformRender(prev, data, extensionPeriods) ==
  LET deps == <<data.baseline.snap, data.future_snap, data.metadata.year,
                extensionPeriods>>
      memo == IF prev.rendered /\ deps = prev.memoDeps
              THEN [standardTotal |-> prev.standardTotal,
                    extendedTotal |-> prev.extendedTotal,
                    maxStdCliff |-> prev.maxStdCliff,
                    maxExtCliff |-> prev.maxExtCliff]
              ELSE ReformCompute(data, extensionPeriods)
  IN [rendered |-> TRUE,
      extensionPeriods |-> extensionPeriods,
      memoDeps |-> deps,
      standardTotal |-> memo.standardTotal,
      extendedTotal |-> memo.extendedTotal,
      maxStdCliff |-> memo.maxStdCliff,
      maxExtCliff |-> memo.maxExtCliff,
      multiplier |-> ReformMultiplier(memo.maxStdCliff, memo.maxExtCliff),
      baselineTrace |-> ClampedTrace(data.baseline.snap_mtr),
      baselineMarkerX |-> MarkerX(data.earnings, data.baseline.snap_mtr),
      baselineMarkerY |-> MarkerY(data.earnings, data.baseline.snap_mtr),
      reformTrace |-> ClampedTrace(data.reform.snap_mtr),
      reformMarkerX |-> MarkerX(data.earnings, data.reform.snap_mtr),
      reformMarkerY |-> MarkerY(data.earnings, data.reform.snap_mtr)]

\* the slider {min 1, max 10, step 1}
ReformPeriodStops == (1..MaxReformPeriods) \cap (1..10)

\* the first render: useState(3)
RenderTheReform ==
  /\ ~theReform.rendered
  /\ theReform' = ReformRender(theReform, snapResults, 3)
  /\ UNCHANGED <<mtrVars, changes, twoPeriodModel, snapResults, ctResults,
                 theProblem, ctResultsView, call, ret>>

setReformExtensionPeriods ==
  /\ theReform.rendered
  /\ \E v \in ReformPeriodStops \ {theReform.extensionPeriods} :
       theReform' = ReformRender(theReform, snapResults, v)
  /\ UNCHANGED <<mtrVars, changes, twoPeriodModel, snapResults, ctResults,
                 theProblem, ctResultsView, call, ret>>

-----------------------------------------------------------------------------
(* CtResults.tsx: the CtResults component.                                 *)

\* arr.splice(-1) for arr.slice(0, -1): the last element leaves the array
SliceButLastInPlace(arr) ==
  LET n == IF Len(arr) = 0 THEN 0 ELSE Len(arr) - 1
  IN [result |-> SubSeq(arr, 1, n), receiver |-> SubSeq(arr, 1, n)]

\* arr.slice(0, -1): what the call returns and what it leaves in arr
SliceButLast(arr) ==
  LET n == IF Len(arr) = 0 THEN 0 ELSE Len(arr) - 1
  IN [result |-> SubSeq(arr, 1, n), receiver |-> arr]

\* `${v}` of an array element, "undefined" beyond the end of the array
Element(arr, i) == IF i \in 1..Len(arr) THEN String(arr[i]) ELSE "undefined"

\* (b, i) => `${b}%-${mtr_distribution.bins[i + 1]}%`
BinLabel(bins, i) == Element(bins, i) \o "%-" \o Element(bins, i + 1) \o "%"

RenderCtResults ==
  /\ ~ctResultsView.rendered
  /\ LET sliced == SliceButLast(ctResults.mtr_distribution.bins)
         bins == sliced.receiver
     IN /\ ctResults' = [ctResults EXCEPT !.mtr_distribution.bins = bins]
        /\ ctResultsView' =
             [rendered |-> TRUE,
              binLabels |-> [i \in 1..Len(sliced.result) |-> BinLabel(bins, i)],
              counts |-> ctResults.mtr_distribution.counts]
  /\ UNCHANGED <<mtrVars, changes, twoPeriodModel, snapResults,
                 theProblem, theReform, call, ret>>

-----------------------------------------------------------------------------
Idle == [fn |-> "none"]

\* the modules are loaded and MtrComparison and TwoPeriodModel have rendered;
\* the data files are the sample
Init ==
  /\ Mount
  /\ twoPeriodModel = TpMount
  /\ snapResults = SampleSnap
  /\ ctResults = SampleCt
  /\ theProblem = NotRendered
  /\ theReform = NotRendered
  /\ ctResultsView = NotRendered
  /\ call = Idle
  /\ ret = I(0)

Next ==
  \/ setBenefitAmount \/ setThreshold \/ setPhaseOutRate
  \/ setExtensionPeriods \/ setDiscountRate

Spec == Init /\ [][Next]_vars

\* the components that render the data files, for every file of DataSets
DataInit ==
  /\ Mount
  /\ twoPeriodModel = TpMount
  /\ \E d \in DataSets : snapResults = d[1] /\ ctResults = d[2]
  /\ theProblem = NotRendered
  /\ theReform = NotRendered
  /\ ctResultsView = NotRendered
  /\ call = Idle
  /\ ret = I(0)

DataNext ==
  \/ RenderTheProblem \/ RenderTheReform \/ RenderCtResults
  \/ setReformExtensionPeriods

DataSpec == DataInit /\ [][DataNext]_vars

\* every component with a slider, on the sample files
SliderNext ==
  \/ setBenefitAmount \/ setThreshold \/ setPhaseOutRate
  \/ setExtensionPeriods \/ setDiscountRate
  \/ RenderTheReform \/ setReformExtensionPeriods

SliderSpec == Init /\ [][SliderNext]_vars

-----------------------------------------------------------------------------
(* The calculator functions applied one call at a time to arguments drawn *)
(* from bounded sets.                                                      *)

IncomeArgs == {I(5000 * i) : i \in 0..MaxIncomeIdx}
BenefitArgs == {I(2500 * i) : i \in 0..MaxBenefitIdx}
ThresholdArgs == {I(10000 * i) : i \in 0..MaxThresholdIdx}

CallComputeBenefit ==
  /\ call = Idle
  /\ \E income \in IncomeArgs, benefit \in BenefitArgs, thresh \in ThresholdArgs,
        rate \in RateStops, design \in Designs :
       /\ call' = [fn |-> "computeBenefit", income |-> income,
                   benefitAmount |-> benefit, threshold |-> thresh,
                   phaseOutRate |-> rate, design |-> design]
       /\ ret' = computeBenefit(income, benefit, thresh, rate, design)
  /\ UNCHANGED compVars

\* grids: strictly increasing incomes, 0..MaxGridLen of them
GridPoints == {I(0), I(200), I(400), I(1000)}
PctArgs == {I(0), I(50), I(5000), Rat(-5, 2)}
GridArgs ==
  {g \in UNION {[1..n -> GridPoints] : n \in 0..MaxGridLen} :
     \A i \in 1..(Len(g) - 1) : RLt(g[i], g[i + 1])}

CallComputeIntegral ==
  /\ call = Idle
  /\ \E grid \in GridArgs :
       \E mtrPcts \in [1..Len(grid) -> PctArgs] :
         /\ call' = [fn |-> "computeIntegral", incomes |-> grid, mtrPcts |-> mtrPcts]
         /\ ret' = computeIntegral(grid, mtrPcts)
  /\ UNCHANGED compVars

PeriodArgs == 0..MaxPeriodsArg
DiscountArgs == {Rat(i, 20) : i \in 0..MaxDiscountIdx}

CallComputePvBenefits ==
  /\ call = Idle
  /\ \E income \in IncomeArgs, benefit \in BenefitArgs, thresh \in ThresholdArgs,
        periods \in PeriodArgs, rate \in DiscountArgs, extended \in BOOLEAN :
       /\ call' = [fn |-> "computePvBenefits", income |-> income,
                   benefitAmount |-> benefit, threshold |-> thresh,
                   extensionPeriods |-> periods, discountRate |-> rate,
                   extended |-> extended]
       /\ ret' = computePvBenefits(income, benefit, thresh, periods, rate, extended)
  /\ UNCHANGED compVars

\* the useMemo callback of TwoPeriodModel, over the component's own grid
MemoArgs ==
  {a \in ((1..MaxMemoPeriods) \cap (1..10)) \X DiscountStops :
     a[1] <= MaxMemoDiscounted \/ a[2] = I(0)}

CallTwoPeriodMemo ==
  /\ call = Idle
  /\ \E a \in MemoArgs :
       /\ call' = [fn |-> "TwoPeriodModel.useMemo", extensionPeriods |-> a[1],
                   discountRate |-> a[2]]
       /\ ret' = TpCompute(TpIncomeGrid, a[1], a[2])
  /\ UNCHANGED compVars

Return ==
  /\ call # Idle
  /\ call' = Idle
  /\ ret' = I(0)
  /\ UNCHANGED compVars

FnNext ==
  \/ CallComputeBenefit
  \/ CallComputeIntegral
  \/ CallComputePvBenefits
  \/ CallTwoPeriodMemo
  \/ Return

FnSpec == Init /\ [][FnNext]_vars

-----------------------------------------------------------------------------
(* Claims.                                                                 *)

\* C1: for the cliff design computeBenefit returns benefitAmount for every
\* income <= threshold (income = threshold included) and 0 for every income
\* above it, whatever phaseOutRate is.
CliffBenefitStep ==
  (call.fn = "computeBenefit" /\ call.design = "cliff") =>
     /\ RLe(call.income, call.threshold) => ret = call.benefitAmount
     /\ RLt(call.threshold, call.income) => ret = I(0)

CliffAtThresholdPaid ==
  /\ call.fn = "computeBenefit"
  /\ call.design = "cliff"
  /\ call.income = call.threshold
  /\ call.benefitAmount = I(5000)
  /\ call.phaseOutRate = Rat(1, 2)
  /\ ret = I(5000)

\* C2: for the phase_out design computeBenefit returns benefitAmount up to the
\* threshold and max(benefitAmount - phaseOutRate * (income - threshold), 0)
\* above it; above the threshold it is never negative, non-increasing in
\* income, and 0 from income = threshold + benefitAmount / phaseOutRate on
\* (phaseOutRate > 0); with 5000, 30000, 0.5 it is 2500 at 35000 and 0 at 40000.
PhaseOutBenefitShape ==
  (call.fn = "computeBenefit" /\ call.design = "phase_out") =>
     LET over == RSub(call.income, call.threshold)
         lost == RMul(call.phaseOutRate, over)
         left == RSub(call.benefitAmount, lost)
     IN /\ RLe(call.income, call.threshold) => ret = call.benefitAmount
        /\ RLt(call.threshold, call.income) =>
              /\ ret = (IF RLe(I(0), left) THEN left ELSE I(0))
              /\ RLe(I(0), ret)
              /\ \A later \in IncomeArgs :
                    RLe(call.income, later) =>
                      RLe(computeBenefit(later, call.benefitAmount, call.threshold,
                                         call.phaseOutRate, "phase_out"), ret)
              /\ (RLt(I(0), call.phaseOutRate) /\ RLe(call.benefitAmount, lost))
                    => ret = I(0)
              /\ (RLt(I(0), call.phaseOutRate) /\ RLt(lost, call.benefitAmount))
                    => RLt(I(0), ret)
        /\ (call.benefitAmount = I(5000) /\ call.threshold = I(30000)
              /\ call.phaseOutRate = Rat(1, 2)) =>
              /\ call.income = I(35000) => ret = I(2500)
              /\ call.income = I(40000) => ret = I(0)

PhaseOutHalfwayInstance ==
  /\ call.fn = "computeBenefit"
  /\ call.design = "phase_out"
  /\ call.benefitAmount = I(5000)
  /\ call.threshold = I(30000)
  /\ call.phaseOutRate = Rat(1, 2)
  /\ call.income = I(35000)
  /\ ret = I(2500)

\* the three memoised series of MtrComparison, by design
Series(design) ==
  CASE design = "cliff" -> cliffMtr
    [] design = "phase_out" -> phaseOutMtr
    [] design = "universal" -> universalMtr

\* C3: for the universal design computeBenefit returns benefitAmount at every
\* grid income whatever threshold and phaseOutRate are; every entry of the
\* universal marginal-rate series is 0 and its integral is 0, in every state
\* the sliders reach.
UniversalFlat ==
  /\ Len(universalMtr) = Len(incomes)
  /\ \A i \in 1..Len(incomes) :
       /\ computeBenefit(incomes[i], benefitAmount, threshold, phaseOutRate,
                         "universal") = benefitAmount
       /\ universalMtr[i] = I(0)
  /\ universalIntegral = I(0)

UniversalFlatAtMaxBenefit ==
  /\ changes = 1
  /\ benefitAmount = I(20000)
  /\ universalMtr[Len(incomes)] = I(0)
  /\ universalIntegral = I(0)

\* C4 (as amended): every series has one entry per grid point, in grid order,
\* and the entry for income y is 100 times the forward-difference estimate
\* -(benefit(y + 100) - benefit(y)) / 100: a percentage.
MtrSeriesIsPercentOfEstimate ==
  \A design \in Designs :
    /\ Len(Series(design)) = Len(incomes)
    /\ \A i \in 1..Len(incomes) :
         LET y == incomes[i]
             lost == RSub(computeBenefit(y, benefitAmount, threshold,
                                         phaseOutRate, design),
                          computeBenefit(RAdd(y, I(100)), benefitAmount, threshold,
                                         phaseOutRate, design))
         IN Series(design)[i] = RMul(I(100), RDiv(lost, I(100)))

\* C4 as claimed: the entry is the estimate itself, a unit fraction.
MtrSeriesIsUnitFraction ==
  \A design \in Designs :
    /\ Len(Series(design)) = Len(incomes)
    /\ \A i \in 1..Len(incomes) :
         LET y == incomes[i]
             lost == RSub(computeBenefit(y, benefitAmount, threshold,
                                         phaseOutRate, design),
                          computeBenefit(RAdd(y, I(100)), benefitAmount, threshold,
                                         phaseOutRate, design))
         IN Series(design)[i] = RDiv(lost, I(100))

\* a 5% phase-out shows as the entry 5 just above the threshold
FivePercentEntry ==
  /\ changes = 1
  /\ phaseOutRate = Rat(1, 20)
  /\ incomes[152] = I(30200)
  /\ phaseOutMtr[152] = I(5)

\* C5: for the cliff design with benefitAmount > 0 the series over the grid
\* has exactly one non-zero entry, at the grid point equal to the threshold,
\* of magnitude benefitAmount / 100 as a unit fraction; every other entry is 0.
CliffSingleSpike ==
  RLt(I(0), benefitAmount) =>
    /\ Cardinality({i \in 1..Len(incomes) : cliffMtr[i] # I(0)}) = 1
    /\ \A i \in 1..Len(incomes) :
         IF incomes[i] = threshold
         THEN RDiv(cliffMtr[i], I(100)) = RDiv(benefitAmount, I(100))
         ELSE cliffMtr[i] = I(0)

CliffSpikeAtLastGridPoint ==
  /\ changes = 1
  /\ threshold = I(80000)
  /\ incomes[Len(incomes)] = threshold
  /\ cliffMtr[Len(incomes)] = I(5000)

\* the left-rectangle sum of the first k intervals, rates in percent
RECURSIVE LeftRectSum(_, _, _)
LeftRectSum(grid, pcts, k) ==
  IF k < 1 THEN I(0)
  ELSE RAdd(RMul(Rat(pcts[k][1], 100 * pcts[k][2]), RSub(grid[k + 1], grid[k])),
            LeftRectSum(grid, pcts, k - 1))

\* C6: computeIntegral returns the left-rectangle sum over consecutive grid
\* points of rate[i] * (grid[i+1] - grid[i]), the rate being the percentage
\* divided by 100; for a grid of fewer than 2 points it returns 0.
IntegralIsLeftRectangleSum ==
  call.fn = "computeIntegral" =>
    /\ ret = LeftRectSum(call.incomes, call.mtrPcts, Len(call.incomes) - 1)
    /\ Len(call.incomes) < 2 => ret = I(0)

\* 50% over [0, 200) and 5000% over [200, 400): 100 + 10000
IntegralOfTwoIntervals ==
  /\ call.fn = "computeIntegral"
  /\ call.incomes = <<I(0), I(200), I(400)>>
  /\ call.mtrPcts = <<I(50), I(5000), I(50)>>
  /\ ret = I(10100)

AtDefaults ==
  /\ benefitAmount = I(5000)
  /\ threshold = I(30000)
  /\ phaseOutRate = Rat(1, 2)

\* x is within 1% of target
WithinOnePercent(x, target) ==
  RLe(RMul(I(100), RAbs(RSub(x, target))), RAbs(target))

\* C7: at the default scenario (5000, 30000, 0.5) the integral of the
\* phase-out series over the income grid is within 1% of 5000.
DefaultPhaseOutConserved ==
  AtDefaults => WithinOnePercent(phaseOutIntegral, I(5000))

DefaultPhaseOutIntegral ==
  /\ AtDefaults
  /\ phaseOutMtr[151] = I(50)
  /\ phaseOutIntegral = I(5000)

\* C8: in every state the sliders reach the cliff integral is within 1% of
\* benefitAmount.
CliffIntegralConserved ==
  WithinOnePercent(cliffIntegral, benefitAmount)

\* C9: in every state the sliders reach the phase-out integral is within 1%
\* of benefitAmount.
PhaseOutIntegralConserved ==
  WithinOnePercent(phaseOutIntegral, benefitAmount)

\* benefit * (1 + 1/(1+r) + ... + 1/(1+r)^periods)
RECURSIVE PvSum(_, _, _)
PvSum(benefit, periods, r) ==
  IF periods = 0 THEN benefit
  ELSE RAdd(PvSum(benefit, periods - 1, r),
            RDiv(benefit, RPow(RAdd(I(1), r), periods)))

\* C10: with extended = true computePvBenefits returns the sum over
\* t = 0..extensionPeriods of benefitAmount / (1 + discountRate)^t when
\* income <= threshold and 0 when income > threshold; with
\* extensionPeriods = 0 it is benefitAmount itself.
ExtendedPvIsDiscountedSum ==
  (call.fn = "computePvBenefits" /\ call.extended) =>
    /\ RLe(call.income, call.threshold) =>
         /\ ret = PvSum(call.benefitAmount, call.extensionPeriods, call.discountRate)
         /\ call.extensionPeriods = 0 => ret = call.benefitAmount
    /\ RLt(call.threshold, call.income) => ret = I(0)

\* 5000 * (1 + 20/21 + 400/441) = 6305000 / 441
PvOfThreePeriods ==
  /\ call.fn = "computePvBenefits"
  /\ call.extended
  /\ call.income = call.threshold
  /\ call.benefitAmount = I(5000)
  /\ call.extensionPeriods = 2
  /\ call.discountRate = Rat(1, 20)
  /\ ret = Rat(6305000, 441)

-----------------------------------------------------------------------------
(* Claims C11..C20.                                                        *)

\* C11: for a fixed benefitAmount >= 0 and discountRate >= 0 the present value
\* at or below the threshold, like the entry cliff the component displays, is
\* non-decreasing in extensionPeriods: fewer periods never give more, and
\* give strictly less when benefitAmount > 0.
PvMonotoneInPeriods ==
  (call.fn = "computePvBenefits" /\ call.extended) =>
    \A T1 \in 0..call.extensionPeriods :
      LET fewer == computePvBenefits(call.income, call.benefitAmount,
                                     call.threshold, T1, call.discountRate, TRUE)
      IN /\ RLe(fewer, ret)
         /\ (/\ T1 < call.extensionPeriods
             /\ RLt(I(0), call.benefitAmount)
             /\ RLe(call.income, call.threshold)) => RLt(fewer, ret)
         /\ RLe(ExtCliffLoop(T1, call.discountRate, 0, I(0)),
                ExtCliffLoop(call.extensionPeriods, call.discountRate, 0, I(0)))
         /\ T1 < call.extensionPeriods =>
              RLt(ExtCliffLoop(T1, call.discountRate, 0, I(0)),
                  ExtCliffLoop(call.extensionPeriods, call.discountRate, 0, I(0)))

\* 2500 + 2500/1.1 + 2500/1.21 = 827500/121 exceeds 2500 + 2500/1.1
PvGrowsWithPeriods ==
  /\ call.fn = "computePvBenefits"
  /\ call.extended
  /\ call.extensionPeriods = 2
  /\ call.benefitAmount = I(2500)
  /\ call.discountRate = Rat(1, 10)
  /\ RLe(call.income, call.threshold)
  /\ ret = Rat(827500, 121)
  /\ RLt(computePvBenefits(call.income, call.benefitAmount, call.threshold, 1,
                           call.discountRate, TRUE), ret)

AtTpDefaults ==
  /\ twoPeriodModel.extensionPeriods = 3
  /\ twoPeriodModel.discountRate = Rat(5, 100)

\* C12 as stated: at the defaults of TwoPeriodModel (3 extension periods,
\* discount rate 0.05, benefit 5000) the displayed entry cliff rounds to 18,594.
DefaultCliffRoundsTo18594 ==
  AtTpDefaults => RRound(twoPeriodModel.extendedCliff) = I(18594)

\* C12: at the defaults of TwoPeriodModel the entry cliff is
\* 5000 * (1 + 1/1.05 + 1/1.05^2 + 1/1.05^3), which rounds to 18,616.
DefaultCliffRoundsTo18616 ==
  AtTpDefaults => RRound(twoPeriodModel.extendedCliff) = I(18616)

DefaultCliffValue ==
  /\ AtTpDefaults
  /\ twoPeriodModel.extendedCliff = Rat(172405000, 9261)

\* C13: in every slider state the displayed extendedCliff is the sum
\* computePvBenefits returns at the threshold and is the drop of the plotted
\* extendedPv across the boundary (extendedCliff at grid income 30000, 0 at
\* 30500); likewise standardCliff is the drop of standardPv.
CliffIsDropOfSeries ==
  LET tp == twoPeriodModel
  IN /\ tp.incomes[61] = I(30000)
     /\ tp.incomes[62] = I(30500)
     /\ tp.extendedCliff =
          computePvBenefits(TpThreshold, TpBenefitAmount, TpThreshold,
                            tp.extensionPeriods, tp.discountRate, TRUE)
     /\ tp.extendedPv[61] = tp.extendedCliff
     /\ tp.extendedPv[62] = I(0)
     /\ RSub(tp.extendedPv[61], tp.extendedPv[62]) = tp.extendedCliff
     /\ RSub(tp.standardPv[61], tp.standardPv[62]) = tp.standardCliff

\* one extension period at 5%: 5000 + 5000/1.05 = 205000/21
OnePeriodCliffDrop ==
  /\ changes = 1
  /\ twoPeriodModel.extensionPeriods = 1
  /\ twoPeriodModel.extendedPv[61] = Rat(205000, 21)
  /\ twoPeriodModel.extendedPv[62] = I(0)
  /\ twoPeriodModel.extendedCliff = Rat(205000, 21)

\* the positions of a series whose rate satisfies the test
Positions(mtr, Test(_)) == {i \in 1..Len(mtr) : Test(mtr[i])}

\* the elements of a series, as a set
Range(seq) == {seq[k] : k \in 1..Len(seq)}

Above1(m) == m[1] > m[2]
MagnitudeAbove1(m) == Abs(m[1]) > m[2]

\* the marker trace holds exactly the earnings at the given positions, one
\* marker each, all at height 100
MarksExactly(markerX, markerY, earnings, positions) ==
  /\ Range(markerX) = {earnings[i] : i \in positions}
  /\ Len(markerX) = Cardinality(positions)
  /\ Len(markerY) = Len(markerX)
  /\ \A k \in 1..Len(markerY) : markerY[k] = I(100)

StrictUnmergedCliffs ==
  theProblem.rendered =>
    LET mtr == snapResults.baseline.mtr
        earnings == snapResults.earnings
        markerX == theProblem.markerX
    IN /\ \A i \in 1..Len(mtr) :
            /\ mtr[i] = I(1) => earnings[i] \notin Range(markerX)
            /\ Above1(mtr[i]) => earnings[i] \in Range(markerX)
       /\ \A k, l \in 1..Len(markerX) : k < l => RLt(markerX[k], markerX[l])
       /\ (\A i \in 1..Len(mtr) : ~Above1(mtr[i])) =>
            (markerX = <<>> /\ theProblem.cliffCount = 0)
       /\ mtr = <<Rat(1, 10), Rat(1, 10), Rat(3, 2), Rat(1, 10)>> =>
            markerX = <<earnings[3]>>
       /\ theProblem.cliffCount = Len(markerX)
       /\ theProblem.cliffCount = Len(theProblem.markerY)

\* two neighbouring cliffs after a rate of exactly 1.0: two markers
NeighbouringCliffsKept ==
  /\ theProblem.rendered
  /\ snapResults.baseline.mtr[1] = I(1)
  /\ snapResults.baseline.mtr[2] = Rat(3, 2)
  /\ snapResults.baseline.mtr[3] = Rat(3, 2)
  /\ theProblem.cliffCount = 2
  /\ theProblem.markerX = <<snapResults.earnings[2], snapResults.earnings[3]>>

AllValuesFinite ==
  /\ dy # I(0)
  /\ twoPeriodModel.standardCliff # I(0)
  /\ \A t \in 0..twoPeriodModel.extensionPeriods :
       RPow(RAdd(I(1), twoPeriodModel.discountRate), t) # I(0)
  /\ \A i \in 1..Len(incomes) :
       /\ Finite(cliffMtr[i])
       /\ Finite(phaseOutMtr[i])
       /\ Finite(universalMtr[i])
       /\ \A design \in Designs :
            Finite(computeBenefit(incomes[i], benefitAmount, threshold,
                                  phaseOutRate, design))
  /\ Finite(cliffIntegral)
  /\ Finite(phaseOutIntegral)
  /\ Finite(universalIntegral)
  /\ \A i \in 1..Len(twoPeriodModel.incomes) :
       /\ Finite(twoPeriodModel.standardPv[i])
       /\ Finite(twoPeriodModel.extendedPv[i])
  /\ Finite(twoPeriodModel.extendedCliff)
  /\ Finite(TpMultiplier)

\* the discount slider at 0: every period counts in full, multiplier 4
ZeroDiscountRate ==
  /\ twoPeriodModel.discountRate = I(0)
  /\ twoPeriodModel.extendedCliff = I(20000)
  /\ TpMultiplier = I(4)

\* C19: TheReform never shows totals for 1 + extensionPeriods years while
\* future_snap lacks one of the years metadata.year + 1..extensionPeriods;
\* such a file is reported as an error instead.
MissingYearFailsFast ==
  theReform.rendered =>
    \A t \in 1..theReform.extensionPeriods :
      String(snapResults.metadata.year + t) \in DOMAIN snapResults.future_snap

-----------------------------------------------------------------------------
\* a call of the memo of TwoPeriodModel is in progress
InMemoCall == call # Idle /\ call.fn = "TwoPeriodModel.useMemo"

IsGrid(grid, step, last) ==
  /\ Len(grid) >= 2
  /\ grid[1] = I(0)
  /\ grid[Len(grid)] = I(last)
  /\ \A i \in 1..(Len(grid) - 1) :
       /\ grid[i + 1] = RAdd(grid[i], I(step))
       /\ RLt(grid[i], grid[i + 1])

\* C23: in every state the sliders reach, the income grid of MtrComparison is
\* 0..80000 in steps of 200 and that of TwoPeriodModel 0..60000 in steps of
\* 500, both as built at the first render, and cliffMtr, phaseOutMtr,
\* universalMtr, standardPv and extendedPv have exactly their grid's length.
IncomeGridsFixed ==
  /\ IsGrid(incomes, 200, 80000)
  /\ IsGrid(twoPeriodModel.incomes, 500, 60000)
  /\ incomes = IncomeGrid
  /\ twoPeriodModel.incomes = TpIncomeGrid
  /\ Len(cliffMtr) = Len(incomes)
  /\ Len(phaseOutMtr) = Len(incomes)
  /\ Len(universalMtr) = Len(incomes)
  /\ Len(twoPeriodModel.standardPv) = Len(twoPeriodModel.incomes)
  /\ Len(twoPeriodModel.extendedPv) = Len(twoPeriodModel.incomes)

\* the threshold slider has been moved and the three series were recomputed
\* over the same 401 points
GridsKeptAfterSlider ==
  /\ changes = 1
  /\ threshold = I(80000)
  /\ incomes[401] = I(80000)
  /\ Len(cliffMtr) = 401
  /\ cliffMtr[401] = I(5000)
  /\ Len(twoPeriodModel.extendedPv) = 121

\* the plotted value of the rate m: 100 above 1, -100 below -1, else 100 * m
Plotted(m) ==
  IF RLt(I(1), m) THEN I(100)
  ELSE IF RLt(m, I(-1)) THEN I(-100) ELSE RMul(m, I(100))

\* trace is the clamped line of mtr, and the markers sit at height 100 at
\* exactly the earnings whose unclamped rate is above 1.0
ClampedWithMarkers(trace, markerX, markerY, earnings, mtr) ==
  /\ Len(trace) = Len(mtr)
  /\ \A i \in 1..Len(mtr) :
       /\ trace[i] = Plotted(mtr[i])
       /\ RLe(I(-100), trace[i])
       /\ RLe(trace[i], I(100))
  /\ Len(markerX) = Len(markerY)
  /\ Len(markerX) = Cardinality({i \in 1..Len(mtr) : RLt(I(1), mtr[i])})
  /\ \A k \in 1..Len(markerX) :
       /\ markerY[k] = I(100)
       /\ \E i \in 1..Len(mtr) :
            /\ earnings[i] = markerX[k]
            /\ RLt(I(1), mtr[i])
            /\ trace[i] = markerY[k]
  /\ \A i \in 1..Len(mtr) :
       RLt(I(1), mtr[i]) => \E k \in 1..Len(markerX) : markerX[k] = earnings[i]

\* C24: every plotted marginal rate of TheProblem and TheReform is
\* 100 * max(-1, min(1, m)), within [-100, 100]; the cliff markers have x
\* and y of equal length, all at height 100, at exactly the earnings with
\* m > 1.0, each on a point of the clamped line whose value is 100.
RatesClampedAndMarked ==
  /\ theProblem.rendered =>
       ClampedWithMarkers(theProblem.mtrTrace, theProblem.markerX,
                          theProblem.markerY, snapResults.earnings,
                          snapResults.baseline.mtr)
  /\ theReform.rendered =>
       /\ ClampedWithMarkers(theReform.baselineTrace, theReform.baselineMarkerX,
                             theReform.baselineMarkerY, snapResults.earnings,
                             snapResults.baseline.snap_mtr)
       /\ ClampedWithMarkers(theReform.reformTrace, theReform.reformMarkerX,
                             theReform.reformMarkerY, snapResults.earnings,
                             snapResults.reform.snap_mtr)

\* rates of 150% and -150% are plotted at 100 and -100, the first one marked
BothClampsApplied ==
  /\ theProblem.rendered
  /\ \E i, j \in DataIdx :
       /\ snapResults.baseline.mtr[i] = Rat(3, 2)
       /\ theProblem.mtrTrace[i] = I(100)
       /\ theProblem.markerX = <<snapResults.earnings[i]>>
       /\ snapResults.baseline.mtr[j] = Rat(-3, 2)
       /\ theProblem.mtrTrace[j] = I(-100)

\* the series of year metadata.year + t at index i, 0 when the file holds none
FutureAt(data, t, i) ==
  LET yearKey == String(data.metadata.year + t)
  IN IF yearKey \in DOMAIN data.future_snap
     THEN data.future_snap[yearKey][i] ELSE I(0)

\* baseline.snap[i] plus the future years 1..periods that the file holds
RECURSIVE TotalThrough(_, _, _)
TotalThrough(data, periods, i) ==
  IF periods = 0 THEN data.baseline.snap[i]
  ELSE RAdd(TotalThrough(data, periods - 1, i), FutureAt(data, periods, i))

\* the file holds every future year 1..periods
YearsPresent(data, periods) ==
  \A t \in 1..periods : String(data.metadata.year + t) \in DOMAIN data.future_snap

\* every future-year amount of the file is non-negative
FutureNonNegative(data) ==
  \A k \in DOMAIN data.future_snap :
    \A i \in 1..Len(data.future_snap[k]) : RLe(I(0), data.future_snap[k][i])

LargestDecrease(series) ==
  LET drops == {RSub(series[i - 1], series[i]) : i \in 2..Len(series)} \cup {I(0)}
  IN CHOOSE d \in drops : \A e \in drops : RLe(e, d)

NeverDecreases(series) ==
  \A i \in 2..Len(series) : RLe(series[i - 1], series[i])

\* C26: maxStdCliff and maxExtCliff are the largest decrease between
\* neighbouring points of standardTotal and extendedTotal, rounded; they are
\* never negative and 0 for a series that never decreases; the multiplier
\* is the quotient maxExtCliff / maxStdCliff, a finite number, exactly when
\* maxStdCliff > 0, and the dash otherwise.
CliffSizesAndMultiplier ==
  theReform.rendered =>
    /\ theReform.maxStdCliff = RRound(LargestDecrease(theReform.standardTotal))
    /\ theReform.maxExtCliff = RRound(LargestDecrease(theReform.extendedTotal))
    /\ RLe(I(0), theReform.maxStdCliff)
    /\ RLe(I(0), theReform.maxExtCliff)
    /\ NeverDecreases(theReform.standardTotal) => theReform.maxStdCliff = I(0)
    /\ NeverDecreases(theReform.extendedTotal) => theReform.maxExtCliff = I(0)
    /\ theReform.multiplier.shown <=> RLt(I(0), theReform.maxStdCliff)
    /\ theReform.multiplier.shown =>
         /\ Finite(theReform.multiplier.value)
         /\ theReform.multiplier.value
              = RDiv(RRound(RMul(RDiv(theReform.maxExtCliff,
                                      theReform.maxStdCliff), I(10))), I(10))

\* no SNAP this year, so no standard cliff, but SNAP in later years: the
\* extended cliff is 3 * 300.125, shown as 900, and the multiplier is a dash
DashForZeroStandardCliff ==
  /\ theReform.rendered
  /\ theReform.extensionPeriods = 3
  /\ theReform.maxStdCliff = I(0)
  /\ theReform.maxExtCliff = I(900)
  /\ ~theReform.multiplier.shown

\* the three tests of the label chain at position i of the series
PartlyLost(baseline, i) ==
  /\ RLt(I(0), baseline.snap[i])
  /\ RLt(I(0), RSub(baseline.snap[i - 1], baseline.snap[i]))
FullyLost(baseline, i) ==
  /\ RLt(I(0), baseline.snap[i - 1])
  /\ baseline.snap[i] = I(0)
OtherLost(baseline, i) ==
  /\ RSub(baseline.snap[i - 1], baseline.snap[i]) = I(0)
  /\ RLt(I(0), RSub(baseline.benefits[i - 1], baseline.benefits[i]))

\* the labels given to the earnings value x
LabelsAt(x) ==
  {theProblem.cliffLabels[k].label :
     k \in {n \in 1..Len(theProblem.cliffLabels) : theProblem.cliffLabels[n].x = x}}

\* C27: every position after the first whose baseline.mtr is above 1.0 has
\* exactly one label: "SNAP (130% FPL)" when SNAP is partly lost, "SNAP +
\* school meals" when it is fully lost, "School meals" when SNAP is
\* unchanged and total benefits drop, "Benefits cliff" when none of the three
\* tests holds; no two of the three tests hold together, so the order in
\* which they are made does not matter.
OneLabelPerCliff ==
  theProblem.rendered =>
    \A i \in 2..Len(snapResults.earnings) :
      LET b == snapResults.baseline
          x == snapResults.earnings[i]
      IN /\ ~(PartlyLost(b, i) /\ FullyLost(b, i))
         /\ ~(PartlyLost(b, i) /\ OtherLost(b, i))
         /\ ~(FullyLost(b, i) /\ OtherLost(b, i))
         /\ ~RLt(I(1), b.mtr[i]) => LabelsAt(x) = {}
         /\ RLt(I(1), b.mtr[i]) =>
              /\ Cardinality({n \in 1..Len(theProblem.cliffLabels) :
                                theProblem.cliffLabels[n].x = x}) = 1
              /\ PartlyLost(b, i) => LabelsAt(x) = {"SNAP (130% FPL)"}
              /\ FullyLost(b, i) => LabelsAt(x) = {"SNAP + school meals"}
              /\ OtherLost(b, i) => LabelsAt(x) = {"School meals"}
              /\ ~(PartlyLost(b, i) \/ FullyLost(b, i) \/ OtherLost(b, i)) =>
                   LabelsAt(x) = {"Benefits cliff"}

\* SNAP partly lost at 1000, school meals lost at 2000, SNAP fully lost at
\* 3000: three cliffs, three causes
ThreeCausesLabelled ==
  /\ theProblem.rendered
  /\ theProblem.cliffLabels
       = <<[x |-> I(1000), label |-> "SNAP (130% FPL)"],
           [x |-> I(2000), label |-> "School meals"],
           [x |-> I(3000), label |-> "SNAP + school meals"]>>

\* C28: TheProblem shows as many cliff annotations as the cliff count it
\* displays and as cliff markers, the annotations at exactly the marker
\* earnings, whatever the data, a first point with mtr > 1.0 included.
AnnotationsMatchMarkers ==
  theProblem.rendered =>
    /\ Len(theProblem.cliffLabels) = theProblem.cliffCount
    /\ Len(theProblem.cliffLabels) = Len(theProblem.markerX)
    /\ \A k \in 1..Len(theProblem.cliffLabels) :
         theProblem.cliffLabels[k].x = theProblem.markerX[k]

\* C29: in every state the sliders reach, every entry of cliffMtr,
\* phaseOutMtr and universalMtr is >= 0 and every entry of phaseOutMtr is at
\* most 100 * phaseOutRate percent, hence at most 100%, while cliffMtr has an
\* entry above 100% whenever benefitAmount > 100.
RatesNonNegativePhaseOutBounded ==
  /\ \A i \in 1..Len(incomes) :
       /\ RLe(I(0), cliffMtr[i])
       /\ RLe(I(0), phaseOutMtr[i])
       /\ RLe(I(0), universalMtr[i])
       /\ RLe(phaseOutMtr[i], RMul(I(100), phaseOutRate))
       /\ RLe(phaseOutMtr[i], I(100))
  /\ RLt(I(100), benefitAmount) =>
       \E i \in 1..Len(incomes) : RLt(I(100), cliffMtr[i])

\* the steepest phase-out, rate 1: its series reaches 100% and no more, the
\* cliff series 5000%
SteepestPhaseOut ==
  /\ changes = 1
  /\ phaseOutRate = I(1)
  /\ \E i \in 1..Len(incomes) : phaseOutMtr[i] = I(100)
  /\ \E i \in 1..Len(incomes) : cliffMtr[i] = I(5000)

\* the multiplier of the caption for the memo's result, before toFixed(2)
MemoMultiplier == RDiv(ret.extendedCliff, ret.standardCliff)

\* a / b <= c / d for a, c >= 0 and b, d > 0, by whole parts and then the
\* reciprocals of the fractional parts: no product is formed
RECURSIVE FracLe(_, _, _, _)
FracLe(a, b, c, d) ==
  IF a \div b # c \div d THEN a \div b < c \div d
  ELSE IF a % b = 0 THEN TRUE
  ELSE IF c % d = 0 THEN FALSE
  ELSE FracLe(d, c % d, b, a % b)

====
